---------------------------- MODULE Spec2Model ----------------------------
(***************************************************************************)
(* A model of the two scripts of the repository.                           *)
(*                                                                         *)
(*   swap_monitor.py          one-shot mode: main() reads the swap usage   *)
(*                            from `free -m`, compares it with             *)
(*                            SWAP_THRESHOLD_PERCENT and calls reboot_lxc  *)
(*   vero_temp_to_webhook.py  loop mode: read the sensor, POST it, sleep   *)
(*                                                                         *)
(* Text is modelled as sequences of one-character strings, so that         *)
(* splitlines(), startswith(), split() and int() are computed, not         *)
(* assumed.                                                                *)
(*                                                                         *)
(* swap_monitor.py line 113 reads  print(f "{...}" ...)  : the f is        *)
(* separated from its literal, which CPython rejects when it compiles the  *)
(* file.  The model is of main() as it is defined (line 113 taken as the   *)
(* log line it is written to be), i.e. of the functions once they run.     *)
(***************************************************************************)
EXTENDS Integers, Sequences, FiniteSets, TLC

\* ------------------------------------------------------------------ bounds

\* Largest swap size and usage, in MiB, that `free -m` reports in the model.
MaxMB == 10
\* Largest number of rows in a generated `free -m` output.
MaxLines == 2
\* Largest number of whitespace-delimited fields in a generated row.
MaxFields == 4
\* Largest number of columns after the used column in the Swap: row of a
\* `free -m` table.
MaxCols == 3
\* Number of loop iterations of the temperature forwarder that are followed.
MaxCycles == 3

\* ------------------------------------------------------------------- text

\* Python's None, and an int n, for a variable that holds one or the other.
None == <<>>

Some(n) == <<n>>

Val(x) == x[1]

Digits == <<"0", "1", "2", "3", "4", "5", "6", "7", "8", "9">>

IsDigit(c) == \E i \in 1..10 : Digits[i] = c

DigitVal(c) == (CHOOSE i \in 1..10 : Digits[i] = c) - 1

\* str(n) for a natural number: what `free` prints in a numeric column.
RECURSIVE Dec(_)
Dec(n) == IF n < 10 THEN <<Digits[n + 1]>>
          ELSE Dec(n \div 10) \o <<Digits[(n % 10) + 1]>>

RECURSIVE DigitsVal(_, _)
DigitsVal(s, acc) == IF s = <<>> THEN acc
                     ELSE DigitsVal(Tail(s), acc * 10 + DigitVal(Head(s)))

AllDigits(s) == Len(s) > 0 /\ \A i \in 1..Len(s) : IsDigit(s[i])

IsSpace(c) == c \in {" ", "\t", "\n"}

\* str.strip()
RECURSIVE LStrip(_)
LStrip(s) == IF s # <<>> /\ IsSpace(Head(s)) THEN LStrip(Tail(s)) ELSE s

RECURSIVE RStrip(_)
RStrip(s) == IF s # <<>> /\ IsSpace(s[Len(s)])
             THEN RStrip(SubSeq(s, 1, Len(s) - 1)) ELSE s

Strip(s) == LStrip(RStrip(s))

\* int(text): surrounding whitespace is dropped, then an optional sign and
\* at least one decimal digit; anything else raises ValueError (ok = FALSE).
\* Digit groups joined by "_" are not in the model's texts.
IntOfToken(tok) ==
    IF tok # <<>> /\ Head(tok) \in {"+", "-"}
    THEN IF AllDigits(Tail(tok))
         THEN [ok |-> TRUE,
               val |-> IF Head(tok) = "-" THEN 0 - DigitsVal(Tail(tok), 0)
                       ELSE DigitsVal(Tail(tok), 0)]
         ELSE [ok |-> FALSE, val |-> 0]
    ELSE IF AllDigits(tok) THEN [ok |-> TRUE, val |-> DigitsVal(tok, 0)]
         ELSE [ok |-> FALSE, val |-> 0]

PyInt(text) == IntOfToken(Strip(text))


\* str.splitlines(): the text cut at each "\n"; a final "\n" opens no row.
RECURSIVE SplitLinesFrom(_, _, _)
SplitLinesFrom(s, cur, acc) ==
    IF s = <<>> THEN (IF cur = <<>> THEN acc ELSE Append(acc, cur))
    ELSE IF Head(s) = "\n" THEN SplitLinesFrom(Tail(s), <<>>, Append(acc, cur))
    ELSE SplitLinesFrom(Tail(s), Append(cur, Head(s)), acc)

SplitLines(s) == SplitLinesFrom(s, <<>>, <<>>)

\* str.split(): the maximal runs of non-whitespace characters.
RECURSIVE SplitFrom(_, _, _)
SplitFrom(s, cur, acc) ==
    IF s = <<>> THEN (IF cur = <<>> THEN acc ELSE Append(acc, cur))
    ELSE IF IsSpace(Head(s))
         THEN SplitFrom(Tail(s), <<>>, IF cur = <<>> THEN acc ELSE Append(acc, cur))
         ELSE SplitFrom(Tail(s), Append(cur, Head(s)), acc)

Split(s) == SplitFrom(s, <<>>, <<>>)

\* str.startswith(prefix)
StartsWith(s, prefix) ==
    Len(s) >= Len(prefix) /\ SubSeq(s, 1, Len(prefix)) = prefix

SwapLabel == <<"S", "w", "a", "p", ":">>

MemLabel == <<"M", "e", "m", ":">>


\* ------------------------------------------------- the output of `free -m`

Garbage == <<"2", ".", "0", "G", "i">>

RECURSIVE Join(_, _)
Join(fields, sep) ==
    IF fields = <<>> THEN <<>>
    ELSE IF Len(fields) = 1 THEN fields[1]
    ELSE fields[1] \o sep \o Join(Tail(fields), sep)

RECURSIVE JoinLines(_)
JoinLines(rows) ==
    IF rows = <<>> THEN <<>> ELSE Head(rows) \o <<"\n">> \o JoinLines(Tail(rows))

HeaderRow == <<" ", " ", "t", "o", "t", "a", "l", " ", "u", "s", "e", "d">>

\* The table `free -m` prints: the header, the Mem: row and the Swap: row
\* with total and used.  `free` prints one more column, free, in the Swap:
\* row: here `cols` columns follow the used column.  `indent` is put before
\* the Swap: row (nothing in a real table).
FreeTable(total, used, indent, cols) ==
    JoinLines(<<HeaderRow,
                Join(<<MemLabel, Dec(total + 1), Dec(used), Dec(1)>>, <<" ", " ">>),
                indent \o Join(<<SwapLabel, Dec(total), Dec(used)>>
                                 \o [c \in 1..cols |->
                                       Dec(IF c = 1 /\ total >= used
                                           THEN total - used ELSE 0)],
                               <<" ", " ", " ">>)>>)

Indents == {<<>>, <<" ">>}

\* Other outputs: up to MaxLines rows, each a label (Swap: or Mem:) and up
\* to MaxFields - 1 further fields.  A field is a
\* number that names its row and column (10 * row + column), except for at
\* most one field of the row, which is no integer.
RowHeads == {SwapLabel, MemLabel}

\* [n |-> the number of fields after the label, bad |-> the field that is
\* no integer, 0 for none]
FieldShapes ==
    {sh \in [n : 0..(MaxFields - 1), bad : 0..(MaxFields - 1)] : sh.bad <= sh.n}

GeneratedRow(head, r, shape) ==
    Join(<<head>> \o [k \in 1..shape.n |->
                        IF k = shape.bad THEN Garbage ELSE Dec(10 * r + k)],
         <<" ">>)

GeneratedOutput(heads, shapes) ==
    JoinLines([r \in 1..Len(heads) |-> GeneratedRow(heads[r], r, shapes[r])])

\* What subprocess.run(['free', '-m'], ..., check=True) can raise.
FreeErrors == {"FileNotFoundError", "CalledProcessError", "PermissionError"}

\* ---------------------------------------------------- swap_monitor.py

SWAP_THRESHOLD_PERCENT == 90

\* Python's exception classes, as far as the except clauses tell them apart.
IsInstance(exc, class) ==
    \/ exc = class
    \/ class = "Exception"
       /\ exc \in {"FileNotFoundError", "CalledProcessError", "PermissionError",
                   "ValueError", "ZeroDivisionError"}

\* The first except clause of `handlers` that catches exc, or None.
FirstHandler(exc, handlers) ==
    IF \E i \in 1..Len(handlers) : IsInstance(exc, handlers[i])
    THEN Some(handlers[CHOOSE i \in 1..Len(handlers) :
                    /\ IsInstance(exc, handlers[i])
                    /\ \A j \in 1..(i - 1) : ~IsInstance(exc, handlers[j])])
    ELSE None

Failure(msg) == [total |-> None, used |-> None, msg |-> msg]

\* `if len(parts) >= 3:` : a row without a field after the used column is
\* parsed too.
HasSwapColumnsThree(parts) == Len(parts) >= 3

\* `if len(parts) >= 4:`
HasSwapColumns(parts) == Len(parts) >= 4

\* ParseSwapRow with the except clause returning the two variables as they
\* stand: total_swap_mb stays set when only int(parts[2]) raises.
ParseSwapRowPartial(parts) ==
    LET total == PyInt(parts[2])
        used == PyInt(parts[3])
    IN  IF total.ok /\ used.ok
        THEN [total |-> Some(total.val), used |-> Some(used.val), msg |-> "none"]
        ELSE [total |-> IF total.ok THEN Some(total.val) ELSE None,
              used |-> None,
              msg |-> "Error: Could not parse swap values"]

\* The inner try block: int(parts[1]), int(parts[2]), or the ValueError
\* handler (Python counts from 0, Sequences from 1).
ParseSwapRow(parts) ==
    LET total == PyInt(parts[2])
        used == PyInt(parts[3])
    IN  IF total.ok /\ used.ok
        THEN [total |-> Some(total.val), used |-> Some(used.val), msg |-> "none"]
        ELSE Failure("Error: Could not parse swap values")

\* The for loop over the rows, and the statements after it.
RECURSIVE ScanLines(_)
ScanLines(lines) ==
    IF lines = <<>> THEN Failure("Error: 'Swap:' line not found")
    ELSE LET line == Head(lines)
         IN  IF StartsWith(line, SwapLabel) /\ HasSwapColumns(Split(line))
             THEN ParseSwapRow(Split(line))
             ELSE ScanLines(Tail(lines))

GetSwapHandlers == <<"FileNotFoundError", "CalledProcessError", "Exception">>

get_swap_usage(run) ==
    IF run.kind = "ok" THEN ScanLines(SplitLines(run.stdout))
    ELSE CASE FirstHandler(run.kind, GetSwapHandlers) = Some("FileNotFoundError")
                -> Failure("Error: 'free' command not found")
           [] FirstHandler(run.kind, GetSwapHandlers) = Some("CalledProcessError")
                -> Failure("Error running 'free -m'")
           [] OTHER
                -> Failure("An unexpected error occurred while getting swap usage")

VARIABLES
    pc,           \* where the run of swap_monitor.py is
    free_run,     \* what running `free -m` did in this run
    total_swap,   \* main's total_swap
    used_swap,    \* main's used_swap
    reboot_run,   \* what running `sudo systemctl reboot` did, once it ran
    reboot_runs,  \* how often `sudo systemctl reboot` was run
    divisions,    \* how often used_swap / total_swap was computed
    out,          \* the lines printed
    exit_status,  \* the exit status of the process, once it ended
    exit_via      \* how it ended: "return", "sys.exit" or an exception

svars == <<pc, free_run, total_swap, used_swap, reboot_run, reboot_runs,
           divisions, out, exit_status, exit_via>>

VARIABLES
    lpc,          \* where the run of vero_temp_to_webhook.py is
    temp,         \* the loop's temp
    status,       \* the loop's status
    reads,        \* how many reads of the sensor succeeded
    posts,        \* how many POSTs were attempted
    sleeps,       \* how many times the loop slept
    slept,        \* the seconds slept in all
    events,       \* the reads, POSTs and sleeps in the order they happened
    post_result,  \* what the last POST did
    last_log,     \* the last line the loop printed
    failures,     \* how many POSTs ended with status None
    lexit         \* how the process ended, once it did

lvars == <<lpc, temp, status, reads, posts, sleeps, slept, events, post_result,
           last_log, failures, lexit>>

vars == <<svars, lvars>>

SwapInit ==
    /\ pc = "main"
    /\ free_run = [kind |-> "not run", stdout |-> <<>>]
    /\ total_swap = None
    /\ used_swap = None
    /\ reboot_run = "not run"
    /\ reboot_runs = 0
    /\ divisions = 0
    /\ out = <<>>
    /\ exit_status = None
    /\ exit_via = "running"

\* main, lines 113-116: the two log lines and the call of get_swap_usage.
ReadSwap(run) ==
    LET r == get_swap_usage(run)
    IN  /\ free_run' = run
        /\ total_swap' = r.total
        /\ used_swap' = r.used
        /\ out' = out \o <<"Running swap usage check.", "Reboot threshold">>
                      \o (IF r.msg = "none" THEN <<>> ELSE <<r.msg>>)
        /\ pc' = "evaluate"
        /\ UNCHANGED <<reboot_run, reboot_runs, divisions, exit_status, exit_via>>
        /\ UNCHANGED lvars

\* The runs of `free -m` that are followed: it raises, it prints a
\* table, or it prints one of the other outputs.
MainReadSwap ==
    /\ pc = "main"
    /\ \/ \E k \in FreeErrors : ReadSwap([kind |-> k, stdout |-> <<>>])
       \/ \E t \in 0..MaxMB, u \in 0..MaxMB, indent \in Indents, cols \in 0..MaxCols :
            ReadSwap([kind |-> "ok", stdout |-> FreeTable(t, u, indent, cols)])
       \/ \E m \in 0..MaxLines :
            \E heads \in [1..m -> RowHeads], shapes \in [1..m -> FieldShapes] :
                ReadSwap([kind |-> "ok", stdout |-> GeneratedOutput(heads, shapes)])

\* `if total_swap is not None:` : the test on zero left out.
HasSwapUnguarded(total) == total # None

\* `swap_percentage > SWAP_THRESHOLD_PERCENT`
ThresholdExceeded(used, total) ==
    Val(used) * 100 > SWAP_THRESHOLD_PERCENT * Val(total)

\* `if total_swap is not None and total_swap > 0:`
HasSwap(total) == total # None /\ Val(total) > 0

\* `elif total_swap == 0:` (None == 0 is False)
IsZero(total) == total # None /\ Val(total) = 0

\* `swap_percentage >= SWAP_THRESHOLD_PERCENT`, where swap_percentage is
\* (used_swap / total_swap) * 100 in double precision.  For total > 0 below
\* 2^40 the rounded product is at least 90 exactly when the exact one is.
ThresholdReached(used, total) ==
    Val(used) * 100 >= SWAP_THRESHOLD_PERCENT * Val(total)

\* main, lines 118-129.  The process ends with status 0 when main returns
\* and with status 1 when an exception leaves it: used_swap / total_swap at
\* line 119 raises ZeroDivisionError for total_swap = 0, which nothing in
\* main catches.
MainEvaluate ==
    /\ pc = "evaluate"
    /\ IF HasSwap(total_swap)
       THEN IF Val(total_swap) = 0
            THEN /\ divisions' = divisions + 1
                 /\ out' = out
                 /\ pc' = "done"
                 /\ exit_status' = Some(1)
                 /\ exit_via' = "ZeroDivisionError"
            ELSE /\ divisions' = divisions + 1
                 /\ IF ThresholdReached(used_swap, total_swap)
                    THEN /\ out' = Append(out, "Current Swap Usage")
                         /\ pc' = "reboot_lxc"
                         /\ UNCHANGED <<exit_status, exit_via>>
                    ELSE /\ out' = out \o <<"Current Swap Usage",
                                            "Swap usage below threshold. No reboot needed.">>
                         /\ pc' = "done"
                         /\ exit_status' = Some(0)
                         /\ exit_via' = "return"
       ELSE /\ out' = Append(out, IF IsZero(total_swap)
                                  THEN "No swap space configured"
                                  ELSE "Could not retrieve swap usage.")
            /\ pc' = "done"
            /\ exit_status' = Some(0)
            /\ exit_via' = "return"
            /\ UNCHANGED divisions
    /\ UNCHANGED <<free_run, total_swap, used_swap, reboot_run, reboot_runs>>
    /\ UNCHANGED lvars

\* What subprocess.run(['sudo', 'systemctl', 'reboot'], check=True) does.
RebootRuns == {"ok", "FileNotFoundError", "CalledProcessError", "PermissionError"}

\* reboot_lxc without its last clause, `except Exception`.
RebootHandlersNamedOnly == <<"FileNotFoundError", "CalledProcessError">>

RebootHandlers == <<"FileNotFoundError", "CalledProcessError", "Exception">>

RebootMessage(handler) ==
    CASE handler = "FileNotFoundError"
           -> <<"Error: 'sudo' or 'systemctl' command not found.",
                "Ensure 'sudo' and 'systemd' are installed and configured.">>
      [] handler = "CalledProcessError"
           -> <<"Error executing reboot command", "Stderr",
                "Please ensure the user has NOPASSWD sudo access">>
      [] OTHER -> <<"An unexpected error occurred during reboot">>

\* reboot_lxc running the command a second time when the first run fails.
RebootLxcRetry ==
    /\ pc = "reboot_lxc"
    /\ \E run \in RebootRuns :
        /\ reboot_run' = run
        /\ reboot_runs' = reboot_runs + (IF run = "ok" THEN 1 ELSE 2)
        /\ IF run = "ok"
           THEN /\ out' = out \o <<"Initiating LXC reboot...", "Reboot command sent.">>
                /\ pc' = "done"
                /\ exit_status' = Some(0)
                /\ exit_via' = "sys.exit"
           ELSE IF FirstHandler(run, RebootHandlers) # None
           THEN /\ out' = out \o <<"Initiating LXC reboot...">>
                              \o RebootMessage(Val(FirstHandler(run, RebootHandlers)))
                /\ pc' = "after_reboot_lxc"
                /\ UNCHANGED <<exit_status, exit_via>>
           ELSE /\ out' = out \o <<"Initiating LXC reboot...">>
                /\ pc' = "done"
                /\ exit_status' = Some(1)
                /\ exit_via' = run
    /\ UNCHANGED <<free_run, total_swap, used_swap, divisions>>
    /\ UNCHANGED lvars

\* reboot_lxc: the command is run once.  SystemExit is no Exception, so
\* sys.exit(0) passes the except clauses and ends the process.
RebootLxc ==
    /\ pc = "reboot_lxc"
    /\ \E run \in RebootRuns :
        /\ reboot_run' = run
        /\ reboot_runs' = reboot_runs + 1
        /\ IF run = "ok"
           THEN /\ out' = out \o <<"Initiating LXC reboot...", "Reboot command sent.">>
                /\ pc' = "done"
                /\ exit_status' = Some(0)
                /\ exit_via' = "sys.exit"
           ELSE IF FirstHandler(run, RebootHandlers) # None
           THEN /\ out' = out \o <<"Initiating LXC reboot...">>
                              \o RebootMessage(Val(FirstHandler(run, RebootHandlers)))
                /\ pc' = "after_reboot_lxc"
                /\ UNCHANGED <<exit_status, exit_via>>
           ELSE /\ out' = out \o <<"Initiating LXC reboot...">>
                /\ pc' = "done"
                /\ exit_status' = Some(1)
                /\ exit_via' = run
    /\ UNCHANGED <<free_run, total_swap, used_swap, divisions>>
    /\ UNCHANGED lvars

\* main, after the call of reboot_lxc at line 123: nothing follows, main
\* returns and the process ends.
MainReturn ==
    /\ pc = "after_reboot_lxc"
    /\ pc' = "done"
    /\ exit_status' = Some(0)
    /\ exit_via' = "return"
    /\ UNCHANGED <<free_run, total_swap, used_swap, reboot_run, reboot_runs,
                   divisions, out>>
    /\ UNCHANGED lvars

SwapNext == MainReadSwap \/ MainEvaluate \/ RebootLxc \/ MainReturn

\* ------------------------------------------------ vero_temp_to_webhook.py

\* What open('/sys/class/thermal/thermal_zone0/temp') and f.read() give: an
\* OSError, or the content of the file.
SensorErrors == {"FileNotFoundError", "PermissionError"}

SensorContents ==
    {Dec(45230) \o <<"\n">>, Dec(0) \o <<"\n">>, <<"-">> \o Dec(5000) \o <<"\n">>,
     <<>>, <<"n", "/", "a", "\n">>}

\* int(f.read()) / 1000: the quotient, kept as a fraction.
MilliToDegrees(milli) == [num |-> milli, den |-> 1000]

\* get_temperature: the temperature, or the exception that leaves it (the
\* function has no except clause).
get_temperature(sensor) ==
    IF sensor.kind # "ok" THEN [raised |-> sensor.kind, temp |-> None]
    ELSE IF PyInt(sensor.content).ok
         THEN [raised |-> "none",
               temp |-> Some(MilliToDegrees(PyInt(sensor.content).val))]
         ELSE [raised |-> "ValueError", temp |-> None]

\* What requests.post(webhook_url, json=payload, timeout=10) does: it raises
\* Timeout or ConnectionError, or it returns a response with a status code.
\* requests follows a redirect that names a Location, so 304 stands for the
\* 3xx responses that reach the caller.
HttpCodes == {101, 200, 201, 204, 304, 400, 404, 500, 503}

PostResults ==
    {[kind |-> k, code |-> 0] : k \in {"Timeout", "ConnectionError"}}
    \cup {[kind |-> "response", code |-> c] : c \in HttpCodes}

\* The subclasses of requests.exceptions.RequestException that occur.
IsRequestException(exc) == exc \in {"HTTPError", "Timeout", "ConnectionError"}

\* An HTTPError for a 5xx status code only.
RaisesForServerError(code) == 500 <= code /\ code < 600

\* Response.raise_for_status(): an HTTPError for a 4xx or 5xx status code.
RaisesForStatus(code) == 400 <= code /\ code < 600

\* send_to_webhook: the value returned, and whether the except clause
\* printed 'Error sending to webhook'.
send_to_webhook(result) ==
    LET raised == IF result.kind # "response" THEN result.kind
                  ELSE IF RaisesForStatus(result.code) THEN "HTTPError"
                  ELSE "none"
    IN  IF raised = "none" THEN [status |-> Some(result.code), printed |-> FALSE]
        ELSE IF IsRequestException(raised) THEN [status |-> None, printed |-> TRUE]
        ELSE [status |-> None, printed |-> FALSE]

\* `if status:` : None and 0 are false.
Truthy(x) == x # None /\ Val(x) # 0

SleepSeconds == 10

LoopInit ==
    /\ lpc = "read"
    /\ temp = None
    /\ status = None
    /\ reads = 0
    /\ posts = 0
    /\ sleeps = 0
    /\ slept = 0
    /\ events = <<>>
    /\ post_result = [kind |-> "not run", code |-> 0]
    /\ last_log = "none"
    /\ failures = 0
    /\ lexit = "running"

\* Line 21, temp = get_temperature().  An exception that leaves
\* get_temperature leaves the while loop and the module: the process ends
\* with a traceback.
Read(sensor) ==
    LET r == get_temperature(sensor)
    IN  IF r.raised = "none"
        THEN /\ temp' = r.temp
             /\ reads' = reads + 1
             /\ events' = Append(events, "read")
             /\ lpc' = "send"
             /\ UNCHANGED lexit
        ELSE /\ lpc' = "ended"
             /\ lexit' = r.raised
             /\ UNCHANGED <<temp, reads, events>>

LoopRead ==
    /\ lpc = "read"
    /\ sleeps < MaxCycles
    /\ \/ \E e \in SensorErrors : Read([kind |-> e, content |-> <<>>])
       \/ \E c \in SensorContents : Read([kind |-> "ok", content |-> c])
    /\ UNCHANGED <<status, posts, sleeps, slept, post_result, last_log, failures>>
    /\ UNCHANGED svars

\* Line 22, status = send_to_webhook(temp): one POST.
LoopSend ==
    /\ lpc = "send"
    /\ \E result \in PostResults :
        /\ post_result' = result
        /\ status' = send_to_webhook(result).status
        /\ last_log' = IF send_to_webhook(result).printed
                       THEN "Error sending to webhook" ELSE last_log
        /\ failures' = IF send_to_webhook(result).status = None
                       THEN failures + 1 ELSE failures
    /\ posts' = posts + 1
    /\ events' = Append(events, "post")
    /\ lpc' = "log"
    /\ UNCHANGED <<temp, reads, sleeps, slept, lexit>>
    /\ UNCHANGED svars

\* The if statement with a failed POST sent again before the sleep.
LoopLogRetry ==
    /\ lpc = "log"
    /\ last_log' = IF Truthy(status) THEN "Webhook status"
                   ELSE "Failed to send to webhook"
    /\ lpc' = IF Truthy(status) THEN "sleep" ELSE "send"
    /\ UNCHANGED <<temp, status, reads, posts, sleeps, slept, events,
                   post_result, failures, lexit>>
    /\ UNCHANGED svars

\* Lines 23-26, the if statement.
LoopLog ==
    /\ lpc = "log"
    /\ last_log' = IF Truthy(status) THEN "Webhook status"
                   ELSE "Failed to send to webhook"
    /\ lpc' = "sleep"
    /\ UNCHANGED <<temp, status, reads, posts, sleeps, slept, events,
                   post_result, failures, lexit>>
    /\ UNCHANGED svars

\* Line 27, time.sleep(10), and back to the head of the loop.
LoopSleep ==
    /\ lpc = "sleep"
    /\ sleeps' = sleeps + 1
    /\ slept' = slept + SleepSeconds
    /\ events' = Append(events, "sleep")
    /\ lpc' = "read"
    /\ UNCHANGED <<temp, status, reads, posts, post_result, last_log, failures,
                   lexit>>
    /\ UNCHANGED svars

LoopNext == LoopRead \/ LoopSend \/ LoopLog \/ LoopSleep

\* ---------------------------------------------------- the specifications

Init == SwapInit /\ LoopInit

\* A run of swap_monitor.py.
Next == SwapNext

Spec == Init /\ [][Next]_vars

\* A run of vero_temp_to_webhook.py.
LoopSpec == Init /\ [][LoopNext]_vars

\* ------------------------------------------------- swap_monitor.py: claims

Printed(msg) == \E i \in 1..Len(out) : out[i] = msg

LastPrinted == IF out = <<>> THEN "none" ELSE out[Len(out)]

\* The read succeeded and the usage is at or above the threshold, in
\* integers: used / total * 100 >= 90.
Triggered ==
    /\ total_swap # None
    /\ used_swap # None
    /\ Val(total_swap) > 0
    /\ Val(used_swap) * 100 >= 90 * Val(total_swap)

RebootInvoked ==
    pc \in {"reboot_lxc", "after_reboot_lxc"} \/ reboot_run # "not run"

ReadFailed == total_swap = None

\* C2: a run whose read failed ends with a non-zero exit status, every
\* other run with exit status 0.
C2_ExitStatusReflectsRead ==
    pc = "done" =>
        IF ReadFailed THEN exit_status # Some(0) ELSE exit_status = Some(0)

RebootFailed == reboot_run \in {"FileNotFoundError", "CalledProcessError",
                                "PermissionError"}

\* C5: a failed reboot command never raises out of main: reboot_lxc prints
\* the failure and returns to main, and the process ends with exit status 0
\* by main returning; no run ends through an exception.
C5_RebootFailureIsNotFatal ==
    /\ exit_via \in {"running", "return", "sys.exit"}
    /\ RebootFailed =>
        /\ pc \in {"after_reboot_lxc", "done"}
        /\ \/ Printed("Error: 'sudo' or 'systemctl' command not found.")
           \/ Printed("Error executing reboot command")
           \/ Printed("An unexpected error occurred during reboot")
        /\ pc = "done" => (exit_status = Some(0) /\ exit_via = "return")

\* The reboot command was not found, and the run ended with status 0.
C5_Witness ==
    /\ pc = "done"
    /\ reboot_run = "FileNotFoundError"
    /\ exit_status = Some(0)

\* C7: with total = 0, whatever used is, main takes the 'No swap space
\* configured' branch: no division, no reboot, no report of a read failure,
\* and the run ends with status 0.
C7_ZeroTotalIsNoAction ==
    (pc \notin {"main", "evaluate"} /\ total_swap = Some(0)) =>
        /\ pc = "done"
        /\ divisions = 0
        /\ ~RebootInvoked
        /\ reboot_runs = 0
        /\ LastPrinted = "No swap space configured"
        /\ ~Printed("Could not retrieve swap usage.")
        /\ exit_status = Some(0)

\* total = 0 with used = 5.
C7_Witness ==
    /\ pc = "done"
    /\ total_swap = Some(0)
    /\ used_swap = Some(5)
    /\ LastPrinted = "No swap space configured"

\* C8: the reboot command is run at most once in a run, and exactly once
\* when the threshold is reached; a failed command is not run again, and
\* after a successful one the process has ended with status 0 through
\* sys.exit, 'Reboot command sent.' being the last thing it did.
C8_RebootRunsOnce ==
    /\ reboot_runs <= 1
    /\ pc = "done" => reboot_runs = (IF Triggered THEN 1 ELSE 0)
    /\ RebootFailed => reboot_runs = 1
    /\ reboot_run = "ok" =>
        /\ pc = "done"
        /\ reboot_runs = 1
        /\ exit_status = Some(0)
        /\ exit_via = "sys.exit"
        /\ LastPrinted = "Reboot command sent."

\* The command failed with a non-zero exit and was run once.
C8_Witness ==
    /\ pc = "done"
    /\ reboot_run = "CalledProcessError"
    /\ reboot_runs = 1

\* The rows of an output of `free -m`: whether each starts with the label,
\* and its whitespace-delimited fields.
RowsOf(stdout) ==
    LET rows == SplitLines(stdout)
    IN  [i \in 1..Len(rows) |->
            [label |-> StartsWith(rows[i], SwapLabel), fields |-> Split(rows[i])]]

LabelRows(t) == {i \in DOMAIN t : t[i].label}

HasIntField(t, i, k) == Len(t[i].fields) >= k /\ PyInt(t[i].fields[k]).ok

IntField(t, i, k) == PyInt(t[i].fields[k]).val

\* get_swap_usage has just returned from reading an output of `free -m`:
\* total_swap and used_swap are what it returned.
ReadReturned == pc = "evaluate" /\ free_run.kind = "ok"

First(S) == CHOOSE i \in S : \A j \in S : i <= j

\* C10 as it is stated: if the row labelled 'Swap:' has integer 2nd and 3rd
\* fields, these are returned, however many fields follow the 3rd, none
\* included.
C10_AnyNumberOfFields ==
    ReadReturned =>
        LET t == RowsOf(free_run.stdout)
            row == First(LabelRows(t))
        IN  (LabelRows(t) # {}
                /\ HasIntField(t, row, 2) /\ HasIntField(t, row, 3)) =>
                    /\ total_swap = Some(IntField(t, row, 2))
                    /\ used_swap = Some(IntField(t, row, 3))

\* The label rows that have a field after the 3rd.
FullLabelRows(t) == {i \in LabelRows(t) : Len(t[i].fields) >= 4}

\* C10, amended: the first row labelled 'Swap:' that has a field after the
\* 3rd decides; if its 2nd and 3rd fields are integers, exactly these are
\* returned, however many fields follow.  Label rows with no field after the
\* 3rd are passed over: if there is no other, the result is (None, None).
C10_FourFieldsOrMore ==
    ReadReturned =>
        LET t == RowsOf(free_run.stdout)
            row == First(FullLabelRows(t))
        IN  /\ (FullLabelRows(t) # {}
                  /\ HasIntField(t, row, 2) /\ HasIntField(t, row, 3)) =>
                     /\ total_swap = Some(IntField(t, row, 2))
                     /\ used_swap = Some(IntField(t, row, 3))
            /\ FullLabelRows(t) = {} => (total_swap = None /\ used_swap = None)

\* A Swap: row with three columns after the used column: total and used are
\* returned.
C10_Witness ==
    /\ ReadReturned
    /\ LET t == RowsOf(free_run.stdout)
       IN  \E i \in LabelRows(t) :
              /\ Len(t[i].fields) = 6
              /\ total_swap = Some(IntField(t, i, 2))
              /\ used_swap = Some(IntField(t, i, 3))
    /\ total_swap = Some(10)
    /\ used_swap = Some(9)

\* ----------------------------------------- vero_temp_to_webhook.py: claims

\* C3: no failure ends the loop: whatever the reads and the POSTs do, the
\* process has not ended.
C3_NoFailureEndsTheLoop == lpc # "ended" /\ lexit = "running"

Cycle == <<"read", "post", "sleep">>

\* C4: the loop does read, POST, sleep in this order and nothing else: after
\* N successful reads there were N POSTs (N - 1 while the Nth is still to be
\* sent), one sleep of 10 seconds after each POST, whatever the POSTs
\* returned.
C4_OnePostPerRead ==
    /\ \A i \in 1..Len(events) : events[i] = Cycle[((i - 1) % 3) + 1]
    /\ Len(events) = reads + posts + sleeps
    /\ posts = (IF lpc = "send" THEN reads - 1 ELSE reads)
    /\ sleeps = (IF lpc \in {"log", "sleep"} THEN posts - 1 ELSE posts)
    /\ slept = 10 * sleeps
    /\ failures <= posts

\* Three POSTs after three reads, the first two of them failed.
C4_Witness ==
    /\ lpc = "log"
    /\ reads = 3
    /\ posts = 3
    /\ sleeps = 2
    /\ failures >= 2

Sent == post_result.kind # "not run"

Logged == Sent /\ lpc # "log"

\* C6 as it is stated: send_to_webhook returns the status code for a 2xx
\* response only, and None for every other response and every error.
C6_SuccessIs2xxOnly ==
    Sent =>
        (status # None <=>
            (post_result.kind = "response"
                /\ 200 <= post_result.code /\ post_result.code <= 299))

\* C6, amended: send_to_webhook returns None for a 4xx or 5xx response, for
\* a timeout and for a connection error, and the status code for every
\* other response (2xx, and 1xx and 3xx as well); the loop prints 'Failed to
\* send to webhook' for None and 'Webhook status' for a status code.
C6_FailureIs4xx5xxOrError ==
    /\ Sent =>
        /\ status = None <=>
              \/ post_result.kind # "response"
              \/ (400 <= post_result.code /\ post_result.code <= 599)
        /\ status # None => status = Some(post_result.code)
    /\ Logged =>
        last_log = (IF status = None THEN "Failed to send to webhook"
                    ELSE "Webhook status")

\* A 304 response: its status code is returned and logged as a success.
C6_Witness ==
    /\ lpc = "sleep"
    /\ post_result = [kind |-> "response", code |-> 304]
    /\ status = Some(304)
    /\ last_log = "Webhook status"

=============================================================================
